---------------------------- MODULE Spec2Model ----------------------------
(***************************************************************************)
(* Settings store (simplified_openvpn_config.py) and suggestion engine     *)
(* (simplified_openvpn_suggest.py) of simplified-openvpn.                  *)
(*                                                                         *)
(* Python strings are TLA+ strings, worked on character by character with  *)
(* Len, SubSeq and \o.  A Python value is a record [t, s, n]: its type     *)
(* tag, its text when it is a str, its number when it is an int or a bool, *)
(* its index in JsonObjects when it is a dict.                             *)
(***************************************************************************)
EXTENDS Integers, Sequences, FiniteSets, TLC

VARIABLES
    settings,   \* the class attribute SimplifiedOpenvpnConfig.settings
    inst,       \* the attributes set on the live store instance itself
    dirs,       \* the directories of the filesystem, as normalised paths
    files,      \* the JSON files of the filesystem: path -> parsed content
    proc,       \* the process: running, or exited with a status
    last,       \* the last call: operation, argument, outcome, result
    sample,     \* the bundled sample sovpn.json, parsed
    machine,    \* what the system probes find: hostname, reverse DNS, home
    consulted   \* the sources the last suggestion consulted

vars == <<settings, inst, dirs, files, proc, last, sample, machine, consulted>>

-----------------------------------------------------------------------------
(* Bounds of the model. *)

\* Items of one persisted file.
MaxItems == 2

-----------------------------------------------------------------------------
(* Python values. *)

PyStr(s) == [t |-> "str", s |-> s, n |-> 0]
PyInt(n) == [t |-> "int", s |-> "", n |-> n]
PyBool(b) == [t |-> "bool", s |-> "", n |-> IF b THEN 1 ELSE 0]
PyDict(k) == [t |-> "dict", s |-> "", n |-> k]
PyNone == [t |-> "none", s |-> "", n |-> 0]

IsStr(v) == v.t = "str"

\* bool(v), as `if create:` evaluates it.
Truthy(v) ==
    CASE v.t = "str" -> v.s # ""
      [] v.t \in {"int", "bool"} -> v.n # 0
      [] v.t = "dict" -> TRUE
      [] OTHER -> FALSE

-----------------------------------------------------------------------------
(* Strings. *)

Char(s, i) == SubSeq(s, i, i)
Rest(s) == SubSeq(s, 2, Len(s))
Front(s) == SubSeq(s, 1, Len(s) - 1)
LastChar(s) == Char(s, Len(s))

UpperChars == "ABCDEFGHIJKLMNOPQRSTUVWXYZ"
LowerChars == "abcdefghijklmnopqrstuvwxyz"
DigitChars == "0123456789"

InChars(c, chars) == \E i \in 1..Len(chars) : Char(chars, i) = c
IndexIn(c, chars) == CHOOSE i \in 1..Len(chars) : Char(chars, i) = c

IsWhitespace(c) == c \in {" ", "\t", "\n", "\r"}

\* str.lower() on one character.
LowerChar(c) ==
    IF InChars(c, UpperChars) THEN Char(LowerChars, IndexIn(c, UpperChars)) ELSE c

RECURSIVE StrLower(_)
\* str.lower()
StrLower(s) ==
    IF s = "" THEN "" ELSE LowerChar(Char(s, 1)) \o StrLower(Rest(s))

RECURSIVE LStrip(_)
LStrip(s) ==
    IF s # "" /\ IsWhitespace(Char(s, 1)) THEN LStrip(Rest(s)) ELSE s

RECURSIVE RStrip(_)
RStrip(s) ==
    IF s # "" /\ IsWhitespace(LastChar(s)) THEN RStrip(Front(s)) ELSE s

\* str.strip()
StrStrip(s) == RStrip(LStrip(s))

RECURSIVE AllChars(_, _)
\* Every character of s is one of chars.
AllChars(s, chars) ==
    s = "" \/ (InChars(Char(s, 1), chars) /\ AllChars(Rest(s), chars))

RECURSIVE Split(_, _)
\* str.split(sep) for a one-character separator.
Split(s, sep) ==
    IF \A i \in 1..Len(s) : Char(s, i) # sep
    THEN <<s>>
    ELSE LET i == CHOOSE j \in 1..Len(s) :
                      Char(s, j) = sep /\ \A k \in 1..(j - 1) : Char(s, k) # sep
         IN <<SubSeq(s, 1, i - 1)>> \o Split(SubSeq(s, i + 1, Len(s)), sep)

RECURSIVE DigitsValue(_)
\* The number a string of decimal digits writes.
DigitsValue(s) ==
    IF s = "" THEN 0
    ELSE 10 * DigitsValue(Front(s)) + (IndexIn(LastChar(s), DigitChars) - 1)

IsDigits(s) == s # "" /\ AllChars(s, DigitChars)
-----------------------------------------------------------------------------
(* The helper library and the slug library: simplified_openvpn_helper and   *)
(* slugify are imported by the store, and are modelled from their           *)
(* documented behaviour.                                                    *)

\* The working directory relative paths are resolved against.
Cwd == "/root/"

RECURSIVE CollapseSeparators(_)
CollapseSeparators(p) ==
    IF Len(p) < 2 THEN p
    ELSE IF Char(p, 1) = "/" /\ Char(p, 2) = "/" THEN CollapseSeparators(Rest(p))
    ELSE Char(p, 1) \o CollapseSeparators(Rest(p))

\* _helper.sanitize_path: absolute, separators collapsed, one trailing separator.
sanitize_path(p) ==
    LET abs == IF p # "" /\ Char(p, 1) = "/" THEN p ELSE Cwd \o p
        flat == CollapseSeparators(abs)
    IN IF LastChar(flat) = "/" THEN flat ELSE flat \o "/"

HostnameChars == UpperChars \o LowerChars \o DigitChars \o "-"

IsValidLabel(l) ==
    /\ Len(l) >= 1
    /\ Len(l) <= 63
    /\ AllChars(l, HostnameChars)
    /\ Char(l, 1) # "-"
    /\ LastChar(l) # "-"

\* _helper.is_valid_hostname: RFC 1123 label rules; a value that is no str is no
\* hostname.
is_valid_hostname(v) ==
    /\ IsStr(v)
    /\ v.s # ""
    /\ Len(v.s) <= 255
    /\ LET h == IF LastChar(v.s) = "." THEN Front(v.s) ELSE v.s
           labels == Split(h, ".")
       IN \A i \in 1..Len(labels) : IsValidLabel(labels[i])

\* _helper.is_valid_ipv4: four decimal parts, each 0..255.
is_valid_ipv4(v) ==
    /\ IsStr(v)
    /\ LET parts == Split(v.s, ".")
       IN /\ Len(parts) = 4
          /\ \A i \in 1..4 :
                /\ IsDigits(parts[i])
                /\ Len(parts[i]) <= 3
                /\ DigitsValue(parts[i]) <= 255

SlugChars == LowerChars \o DigitChars

RECURSIVE Hyphenate(_)
\* Every character that is no lowercase letter or digit becomes a hyphen.
Hyphenate(s) ==
    IF s = "" THEN ""
    ELSE (IF InChars(Char(s, 1), SlugChars) THEN Char(s, 1) ELSE "-")
            \o Hyphenate(Rest(s))

RECURSIVE CollapseHyphens(_)
CollapseHyphens(s) ==
    IF Len(s) < 2 THEN s
    ELSE IF Char(s, 1) = "-" /\ Char(s, 2) = "-" THEN CollapseHyphens(Rest(s))
    ELSE Char(s, 1) \o CollapseHyphens(Rest(s))

RECURSIVE StripHyphens(_)
StripHyphens(s) ==
    IF s # "" /\ Char(s, 1) = "-" THEN StripHyphens(Rest(s))
    ELSE IF s # "" /\ LastChar(s) = "-" THEN StripHyphens(Front(s))
    ELSE s

\* slugify.slugify on ASCII text: lowercase, hyphen-separated.
slugify(s) == StripHyphens(CollapseHyphens(Hyphenate(StrLower(s))))
-----------------------------------------------------------------------------
(* The filesystem. *)

\* Every directory on the way to the normalised path p, and p itself.
PathAndParents(p) == {SubSeq(p, 1, i) : i \in {j \in 1..Len(p) : Char(p, j) = "/"}}

\* os.path.isdir
isdir(ds, p) == sanitize_path(p) \in ds

\* _helper.create_directory: the directory and its missing parents.
create_directory(ds, p) == ds \cup PathAndParents(sanitize_path(p))

\* os.path.isfile
isfile(fs, p) == p \in DOMAIN fs /\ fs[p].exists

NoFile == [exists |-> FALSE, data |-> <<>>]
JsonFile(data) == [exists |-> TRUE, data |-> data]

\* The items of every pool of a parsed file, in the order the loops visit them.
RECURSIVE AllItems(_)
AllItems(data) ==
    IF data = <<>> THEN <<>> ELSE Head(data).items \o AllItems(Tail(data))

HasPool(data, name) == \E i \in 1..Len(data) : data[i].pool = name
PoolItems(data, name) ==
    data[CHOOSE i \in 1..Len(data) : data[i].pool = name].items
HasKey(items, key) == \E i \in 1..Len(items) : items[i].key = key
ValueOf(items, key) ==
    items[CHOOSE i \in 1..Len(items) : items[i].key = key].value

-----------------------------------------------------------------------------
(* The store's state. *)

ServerFields ==
    {"server_dir", "easy_rsa_dir", "clients_dir", "sovpn_config_file",
     "sovpn_share_salt", "hostname", "ipv4", "port", "protocol"}
ClientFields == {"slug", "pretty_name", "client_dir"}
PoolOfField(k) == IF k \in ServerFields THEN "server" ELSE "client"

DefaultConfigFile == "/etc/openvpn/sovpn.json"

\* The class attribute as the class body leaves it.
ClassSettings ==
    [server |->
        [server_dir |-> PyStr("/etc/openvpn/"),
         easy_rsa_dir |-> PyStr("/etc/openvpn/easy-rsa/"),
         clients_dir |-> PyStr("/root/openvpn-clients/"),
         sovpn_config_file |-> PyStr(DefaultConfigFile),
         sovpn_share_salt |-> PyNone,
         hostname |-> PyNone,
         ipv4 |-> PyNone,
         port |-> PyNone,
         protocol |-> PyNone],
     client |->
        [slug |-> PyNone,
         pretty_name |-> PyNone,
         client_dir |-> PyNone]]

\* The JSON objects a file may hold as a value: PyDict(k) is JsonObjects[k].
JsonObjects ==
    << [ClassSettings EXCEPT !.server.protocol = PyStr("icmp"),
                             !.server.ipv4 = PyStr("10.0.0.1")] >>

\* The properties of the class, its methods, its data attribute, and the
\* attributes every object has: what dir(self) lists.
SetterProperties ==
    {"server_dir", "easy_rsa_dir", "clients_dir", "sovpn_config_file",
     "sovpn_share_salt", "hostname", "port", "protocol", "slug", "pretty_name",
     "client_dir"}
ReadOnlyProperties == {"ipv4"}
Methods ==
    {"needs_setup", "config_setup", "load_config", "fetch_hostname_by_config_file"}
ObjectAttributes == {"__class__", "__doc__"}
DirSelf ==
    SetterProperties \cup ReadOnlyProperties \cup Methods \cup {"settings"}
        \cup ObjectAttributes

\* A fresh instance: no attribute of its own, so self.settings is the class
\* attribute.  settings.kind is "class" while the instance has no settings
\* attribute, "dict" when it holds a JSON object (pools), "scalar" when it
\* holds another value; attrs are the other names set on the instance.
FreshInstance ==
    [settings |-> [kind |-> "class", pools |-> ClassSettings], attrs |-> {}]

\* What a call works on, and what it ends with.
Returned(S, ret) ==
    [s |-> S, out |-> "returned", exc |-> "", code |-> 0, ret |-> ret]
Raised(S, exc) ==
    [s |-> S, out |-> "raised", exc |-> exc, code |-> 0, ret |-> PyNone]
Exited(S, code) ==
    [s |-> S, out |-> "exited", exc |-> "SystemExit", code |-> code, ret |-> PyNone]

\* The object self.settings evaluates to can be subscripted by a pool name.
Subscriptable(S) == S.inst.settings.kind # "scalar"

\* The pools self.settings evaluates to.
Pools(S) ==
    IF S.inst.settings.kind = "dict" THEN S.inst.settings.pools ELSE S.cls

\* self.settings[pool][key]
GetItem(S, pool, key) ==
    IF ~Subscriptable(S) THEN Raised(S, "TypeError")
    ELSE Returned(S, Pools(S)[pool][key])

\* self.settings[pool][key] = value
SetItem(S, pool, key, value) ==
    IF ~Subscriptable(S) THEN Raised(S, "TypeError")
    ELSE IF S.inst.settings.kind = "dict"
    THEN Returned([S EXCEPT !.inst.settings.pools[pool][key] = value], PyNone)
    ELSE Returned([S EXCEPT !.cls[pool][key] = value], PyNone)
-----------------------------------------------------------------------------
(* The accessors of SimplifiedOpenvpnConfig. *)

\* server_dir_setter, were the value stored as given, not sanitized.
server_dir_setter_Unsanitized(S, value) ==
    IF ~IsStr(value) THEN Raised(S, "TypeError")
    ELSE IF ~isdir(S.dirs, value.s) THEN Exited(S, 1)
    ELSE SetItem(S, "server", "server_dir", value)

\* os.path.isdir and the diagnostic's string concatenation take a str: a value
\* of another type raises TypeError in one or the other.
server_dir_setter(S, value) ==
    IF ~IsStr(value) THEN Raised(S, "TypeError")
    ELSE IF ~isdir(S.dirs, value.s) THEN Exited(S, 1)
    ELSE SetItem(S, "server", "server_dir", PyStr(sanitize_path(value.s)))

easy_rsa_dir_setter(S, value) ==
    IF ~IsStr(value) THEN Raised(S, "TypeError")
    ELSE IF ~isdir(S.dirs, value.s) THEN Exited(S, 1)
    ELSE SetItem(S, "server", "easy_rsa_dir", PyStr(sanitize_path(value.s)))

\* An assignment to the property calls the setter with the value alone, so
\* create is False there.
clients_dir_setter(S, value, create) ==
    IF ~IsStr(value) THEN Raised(S, "TypeError")
    ELSE LET made == IF create THEN create_directory(S.dirs, value.s) ELSE S.dirs
             S1 == [S EXCEPT !.dirs = made]
         IN IF ~isdir(made, value.s) THEN Exited(S1, 1)
            ELSE SetItem(S1, "server", "clients_dir", PyStr(sanitize_path(value.s)))

sovpn_config_file_setter(S, value) ==
    SetItem(S, "server", "sovpn_config_file", value)

sovpn_share_salt_setter(S, value) ==
    SetItem(S, "server", "sovpn_share_salt", value)

\* hostname_setter, were the value stored without asking the validator.
hostname_setter_Unchecked(S, value) == SetItem(S, "server", "hostname", value)

\* The diagnostic concatenates the value into a str: TypeError when it is none.
hostname_setter(S, value) ==
    IF ~is_valid_hostname(value)
    THEN IF IsStr(value) THEN Returned(S, PyNone) ELSE Raised(S, "TypeError")
    ELSE SetItem(S, "server", "hostname", value)

\* int(value)
py_int(S, value) ==
    CASE value.t \in {"int", "bool"} -> Returned(S, PyInt(value.n))
      [] value.t = "str" ->
            LET body == StrStrip(value.s)
                neg == body # "" /\ Char(body, 1) = "-"
                digits == IF body # "" /\ Char(body, 1) \in {"-", "+"}
                          THEN Rest(body) ELSE body
            IN IF IsDigits(digits)
               THEN Returned(S, PyInt(IF neg THEN 0 - DigitsValue(digits)
                                      ELSE DigitsValue(digits)))
               ELSE Raised(S, "ValueError")
      [] OTHER -> Raised(S, "TypeError")

port_setter(S, value) ==
    LET r == py_int(S, value)
    IN IF r.out # "returned" THEN r ELSE SetItem(S, "server", "port", r.ret)

protocols == {"udp", "tcp"}

protocol_setter(S, value) ==
    IF IsStr(value) /\ StrLower(value.s) \in protocols
    THEN SetItem(S, "server", "protocol", PyStr(StrLower(value.s)))
    ELSE Returned(S, PyNone)

slug_setter(S, value) ==
    IF ~IsStr(value) THEN Raised(S, "TypeError")
    ELSE SetItem(S, "client", "slug", PyStr(slugify(value.s)))

pretty_name_setter(S, value) ==
    IF ~IsStr(value) THEN Raised(S, "AttributeError")
    ELSE SetItem(S, "client", "pretty_name", PyStr(StrStrip(value.s)))

\* The assigned value arrives as create; the path is clients_dir + slug.
client_dir_setter(S, create) ==
    LET cd == GetItem(S, "server", "clients_dir")
        sl == GetItem(S, "client", "slug")
    IN IF cd.out # "returned" THEN cd
       ELSE IF ~(IsStr(cd.ret) /\ IsStr(sl.ret)) THEN Raised(S, "TypeError")
       ELSE LET value == cd.ret.s \o sl.ret.s
                S1 == IF Truthy(create)
                      THEN [S EXCEPT !.dirs = create_directory(S.dirs, value)]
                      ELSE S
            IN SetItem(S1, "client", "client_dir", PyStr(sanitize_path(value)))

\* The getters that return the stored value.
server_dir(S) == GetItem(S, "server", "server_dir")
easy_rsa_dir(S) == GetItem(S, "server", "easy_rsa_dir")
clients_dir(S) == GetItem(S, "server", "clients_dir")
sovpn_config_file(S) == GetItem(S, "server", "sovpn_config_file")
sovpn_share_salt(S) == GetItem(S, "server", "sovpn_share_salt")
port(S) == GetItem(S, "server", "port")
protocol(S) == GetItem(S, "server", "protocol")
slug(S) == GetItem(S, "client", "slug")
pretty_name(S) == GetItem(S, "client", "pretty_name")
client_dir(S) == GetItem(S, "client", "client_dir")

\* os.path.isfile(self.sovpn_config_file): the result [s, out, exc, ret] with
\* ret the file's parsed content, or NoFile.
OpenConfigFile(S, fs) ==
    LET path == sovpn_config_file(S)
    IN IF path.out # "returned" THEN path
       ELSE IF path.ret.t \in {"none", "dict"} THEN Raised(S, "TypeError")
       ELSE IF IsStr(path.ret) /\ isfile(fs, path.ret.s)
       THEN [Returned(S, PyNone) EXCEPT !.ret = fs[path.ret.s]]
       ELSE [Returned(S, PyNone) EXCEPT !.ret = NoFile]

fetch_hostname_by_config_file(S, fs) ==
    LET f == OpenConfigFile(S, fs)
    IN IF f.out # "returned" THEN f
       ELSE IF ~f.ret.exists THEN Returned(S, PyNone)
       ELSE IF ~HasPool(f.ret.data, "server") THEN Raised(S, "KeyError")
       ELSE IF ~HasKey(PoolItems(f.ret.data, "server"), "hostname")
       THEN Raised(S, "KeyError")
       ELSE LET h == ValueOf(PoolItems(f.ret.data, "server"), "hostname")
            IN IF is_valid_hostname(h) THEN Returned(S, h) ELSE Returned(S, PyNone)

\* A method name set on the instance hides the method: calling it raises.
hostname(S, fs) ==
    LET stored == GetItem(S, "server", "hostname")
    IN IF stored.out # "returned" THEN stored
       ELSE IF stored.ret # PyNone THEN stored
       ELSE IF "fetch_hostname_by_config_file" \in S.inst.attrs
       THEN Raised(S, "TypeError")
       ELSE fetch_hostname_by_config_file(S, fs)

\* looked is what _helper.fetch_external_ipv4() answers.
ipv4(S, looked) ==
    LET stored == GetItem(S, "server", "ipv4")
    IN IF stored.out # "returned" THEN stored
       ELSE IF stored.ret # PyNone THEN stored
       ELSE IF is_valid_ipv4(looked) THEN Returned(S, looked)
       ELSE Returned(S, PyNone)
-----------------------------------------------------------------------------
(* load_config and construction. *)

\* setattr(self, key, value) for a key dir(self) lists: a property's setter
\* runs, a property without setter refuses, any other name becomes an
\* attribute of the instance and hides the class's.
setattr(S, key, value) ==
    CASE key = "server_dir" -> server_dir_setter(S, value)
      [] key = "easy_rsa_dir" -> easy_rsa_dir_setter(S, value)
      [] key = "clients_dir" -> clients_dir_setter(S, value, FALSE)
      [] key = "sovpn_config_file" -> sovpn_config_file_setter(S, value)
      [] key = "sovpn_share_salt" -> sovpn_share_salt_setter(S, value)
      [] key = "hostname" -> hostname_setter(S, value)
      [] key = "port" -> port_setter(S, value)
      [] key = "protocol" -> protocol_setter(S, value)
      [] key = "slug" -> slug_setter(S, value)
      [] key = "pretty_name" -> pretty_name_setter(S, value)
      [] key = "client_dir" -> client_dir_setter(S, value)
      [] key \in ReadOnlyProperties -> Raised(S, "AttributeError")
      [] key = "settings" ->
            Returned([S EXCEPT !.inst.settings =
                        IF value.t = "dict"
                        THEN [kind |-> "dict", pools |-> JsonObjects[value.n]]
                        ELSE [kind |-> "scalar", pools |-> ClassSettings]],
                     PyNone)
      [] key = "__class__" -> Raised(S, "TypeError")
      [] OTHER ->
            Returned([S EXCEPT !.inst.attrs = @ \cup {key}], PyNone)

\* LoadItem, were the value stored in the pool directly, past the setter.
LoadItem_PlainStore(S, item) ==
    IF item.key \in SetterProperties \cup ReadOnlyProperties
    THEN SetItem(S, PoolOfField(item.key), item.key, item.value)
    ELSE IF item.key \in DirSelf THEN setattr(S, item.key, item.value)
    ELSE Returned(S, PyNone)

\* The body of the two loops for one item.
LoadItem(S, item) ==
    IF item.key \in DirSelf THEN setattr(S, item.key, item.value)
    ELSE Returned(S, PyNone)

RECURSIVE LoadItems(_, _)
\* The two loops: an exception or an exit ends them where it happens.
LoadItems(S, items) ==
    IF items = <<>> THEN Returned(S, PyNone)
    ELSE LET r == LoadItem(S, Head(items))
         IN IF r.out # "returned" THEN r ELSE LoadItems(r.s, Tail(items))

load_config(S, fs) ==
    LET f == OpenConfigFile(S, fs)
    IN IF f.out # "returned" THEN f
       ELSE IF ~f.ret.exists THEN Returned(S, PyNone)
       ELSE LoadItems(S, AllItems(f.ret.data))

needs_setup(S, fs) ==
    LET f == OpenConfigFile(S, fs)
    IN IF f.out # "returned" THEN f
       ELSE Returned(S, PyBool(~f.ret.exists))

-----------------------------------------------------------------------------
(* The calls a program makes on the store, and what its environment does. *)

Running == proc.status = "running"

Cur == [cls |-> settings, inst |-> inst, dirs |-> dirs]

NoCall ==
    [op |-> "none", arg |-> PyNone, out |-> "returned", exc |-> "", code |-> 0,
     ret |-> PyNone]

\* A call of op with arg that ended as r: its effects, and its record.
Call(op, arg, r) ==
    /\ Running
    /\ settings' = r.s.cls
    /\ inst' = r.s.inst
    /\ dirs' = r.s.dirs
    /\ proc' = IF r.out = "exited"
               THEN [status |-> "exited", code |-> r.code] ELSE proc
    /\ last' = [op |-> op, arg |-> arg, out |-> r.out, exc |-> r.exc,
                code |-> r.code, ret |-> r.ret]
    /\ UNCHANGED <<files, sample, machine, consulted>>

\* SimplifiedOpenvpnConfig(): a new instance, whose __init__ loads.  When
\* __init__ raises, the caller gets no new instance and keeps the one it had.
Construct ==
    LET r == load_config([Cur EXCEPT !.inst = FreshInstance], files)
    IN Call("__init__", PyNone,
            IF r.out = "returned" THEN r ELSE [r EXCEPT !.s.inst = inst])

LoadConfig ==
    Call("load_config", PyNone,
         IF "load_config" \in inst.attrs THEN Raised(Cur, "TypeError")
         ELSE load_config(Cur, files))

WriteServerDir(V) ==
    \E v \in V : Call("server_dir.setter", v, server_dir_setter(Cur, v))
WriteEasyRsaDir(V) ==
    \E v \in V : Call("easy_rsa_dir.setter", v, easy_rsa_dir_setter(Cur, v))
WriteClientsDir(V) ==
    \E v \in V : Call("clients_dir.setter", v, clients_dir_setter(Cur, v, FALSE))
WriteSovpnConfigFile(V) ==
    \E v \in V :
        Call("sovpn_config_file.setter", v, sovpn_config_file_setter(Cur, v))
WriteSovpnShareSalt(V) ==
    \E v \in V :
        Call("sovpn_share_salt.setter", v, sovpn_share_salt_setter(Cur, v))
WriteHostname(V) ==
    \E v \in V : Call("hostname.setter", v, hostname_setter(Cur, v))
WritePort(V) ==
    \E v \in V : Call("port.setter", v, port_setter(Cur, v))
WriteProtocol(V) ==
    \E v \in V : Call("protocol.setter", v, protocol_setter(Cur, v))
WriteSlug(V) ==
    \E v \in V : Call("slug.setter", v, slug_setter(Cur, v))
WritePrettyName(V) ==
    \E v \in V : Call("pretty_name.setter", v, pretty_name_setter(Cur, v))
WriteClientDir(V) ==
    \E v \in V : Call("client_dir.setter", v, client_dir_setter(Cur, v))

ReadServerDir == Call("server_dir", PyNone, server_dir(Cur))
ReadEasyRsaDir == Call("easy_rsa_dir", PyNone, easy_rsa_dir(Cur))
ReadClientsDir == Call("clients_dir", PyNone, clients_dir(Cur))
ReadClientDir == Call("client_dir", PyNone, client_dir(Cur))
ReadHostname == Call("hostname", PyNone, hostname(Cur, files))
\* The external lookup answers an address, something else, or nothing.
ReadIpv4(L) == \E looked \in L : Call("ipv4", looked, ipv4(Cur, looked))

\* Another program, or the user, writes the persisted file: creates it as
\* {}, adds a pool, adds an item to a pool, or removes the file.
EnvCreateFile(path) ==
    /\ Running
    /\ ~files[path].exists
    /\ files' = [files EXCEPT ![path] = JsonFile(<<>>)]
    /\ last' = NoCall
    /\ UNCHANGED <<settings, inst, dirs, proc, sample, machine, consulted>>

EnvAddPool(path, P) ==
    \E p \in P :
        /\ Running
        /\ files[path].exists
        /\ ~HasPool(files[path].data, p)
        /\ files' = [files EXCEPT ![path].data = Append(@, [pool |-> p, items |-> <<>>])]
        /\ last' = NoCall
        /\ UNCHANGED <<settings, inst, dirs, proc, sample, machine, consulted>>

EnvAddItem(path, E) ==
    \E i \in 1..Len(files[path].data), it \in E :
        /\ Running
        /\ files[path].exists
        /\ Len(AllItems(files[path].data)) < MaxItems
        /\ ~HasKey(files[path].data[i].items, it.key)
        /\ files' = [files EXCEPT ![path].data[i].items = Append(@, it)]
        /\ last' = NoCall
        /\ UNCHANGED <<settings, inst, dirs, proc, sample, machine, consulted>>

EnvRemoveFile(path) ==
    /\ Running
    /\ files[path].exists
    /\ files' = [files EXCEPT ![path] = NoFile]
    /\ last' = NoCall
    /\ UNCHANGED <<settings, inst, dirs, proc, sample, machine, consulted>>

-----------------------------------------------------------------------------
(* The inputs of the model. *)

Item(k, v) == [key |-> k, value |-> v]

ConfigPaths == {DefaultConfigFile}

\* The directories that exist when the program starts.
InitialDirs == {"/", "/etc/", "/etc/openvpn/", "/root/", "/srv/", "/srv/vpn/"}

\* A bundled sample that suggests nothing.
EmptySample == <<[pool |-> "server", items |-> <<>>]>>

\* A machine on which every probe answers.
DefaultMachine ==
    [hostname |-> PyStr("vpn-1"), reverse_dns |-> PyStr("vpn-1.example.org"),
     home |-> "/root"]

\* The state after the first construction, with no persisted file.
InitStore ==
    /\ settings = ClassSettings
    /\ inst = FreshInstance
    /\ dirs = InitialDirs
    /\ files = [p \in ConfigPaths |-> NoFile]
    /\ proc = [status |-> "running", code |-> 0]
    /\ last = [NoCall EXCEPT !.op = "__init__"]
    /\ sample = EmptySample
    /\ machine = DefaultMachine
    /\ consulted = {}

-----------------------------------------------------------------------------
(* Construction, loads and protocol writes. *)

ProtocolValues ==
    {PyStr("udp"), PyStr("TCP"), PyStr("icmp"), PyStr(""), PyNone, PyInt(6)}

ProtocolItems ==
    {Item("protocol", PyStr("TCP")), Item("protocol", PyStr("icmp")),
     Item("protocol", PyNone), Item("settings", PyDict(1)),
     Item("settings", PyInt(0)), Item("bogus", PyInt(1))}

NextProtocol ==
    \/ Construct
    \/ LoadConfig
    \/ WriteProtocol(ProtocolValues)
    \/ EnvCreateFile(DefaultConfigFile)
    \/ EnvAddPool(DefaultConfigFile, {"server", "client"})
    \/ EnvAddItem(DefaultConfigFile, ProtocolItems)
    \/ EnvRemoveFile(DefaultConfigFile)

SpecProtocol == InitStore /\ [][NextProtocol]_vars

\* C1: the protocol a store holds is unset, "udp" or "tcp", whatever was
\* constructed, loaded and written.
C1_ProtocolWhitelisted ==
    Subscriptable(Cur) =>
        Pools(Cur).server.protocol \in {PyNone, PyStr("udp"), PyStr("tcp")}
-----------------------------------------------------------------------------
(* Loads of persisted files. *)

\* The items the call self.load_config() visits in the current state: those
\* of the file self.sovpn_config_file names, when the call gets to read it.
LoadedItems ==
    LET f == OpenConfigFile(Cur, files)
    IN IF "load_config" \notin inst.attrs /\ f.out = "returned" /\ f.ret.exists
       THEN AllItems(f.ret.data) ELSE <<>>

LoadedKeys == {LoadedItems[i].key : i \in 1..Len(LoadedItems)}

ValidatedItems ==
    {Item("hostname", PyStr("vpn-1.example.org")),
     Item("hostname", PyStr("bad_host!")),
     Item("protocol", PyStr("TCP")),
     Item("protocol", PyStr("icmp")),
     Item("server_dir", PyStr("/srv//vpn")),
     Item("server_dir", PyStr("/nonexistent")),
     Item("settings", PyDict(1)),
     Item("settings", PyInt(0)),
     Item("bogus", PyInt(1))}

NextLoad ==
    \/ Construct
    \/ LoadConfig
    \/ EnvCreateFile(DefaultConfigFile)
    \/ EnvAddPool(DefaultConfigFile, {"server"})
    \/ EnvAddItem(DefaultConfigFile, ValidatedItems)
    \/ EnvRemoveFile(DefaultConfigFile)

SpecLoad == InitStore /\ [][NextLoad]_vars

\* The file read holds only settings of the store.
OnlySettingsLoaded == LoadedKeys \subseteq SetterProperties \cup ReadOnlyProperties

\* C3, as claimed: a load stores each recognized field of the file verbatim,
\* and neither raises nor ends the process.
C3_LoadStoresVerbatim ==
    [][(last'.op = "load_config" /\ OnlySettingsLoaded) =>
        /\ last'.out = "returned"
        /\ \A i \in 1..Len(LoadedItems) :
              LET k == LoadedItems[i].key
              IN \E j \in 1..Len(LoadedItems) :
                    /\ LoadedItems[j].key = k
                    /\ settings'[PoolOfField(k)][k] = LoadedItems[j].value]_vars

\* C3, amended: a load hands each value to the field's setter.  A load changes
\* the class's hostname only to a value of the file that passes validation,
\* its protocol only to the lowercase of a value of the file that is udp or
\* tcp in any case, its server_dir only to the sanitized form of a value of
\* the file that is an existing directory; it ends the process only with
\* status 1 and only for a directory value that is no directory; and a file
\* whose first item is such a server_dir ends the process with nothing stored.
C3_LoadRunsSetters ==
    [][last'.op = "load_config" =>
        LET its == LoadedItems
            Has(k, P(_)) == \E i \in 1..Len(its) : its[i].key = k /\ P(its[i].value)
            new == settings'.server
            old == settings.server
        IN /\ new.hostname # old.hostname =>
                Has("hostname", LAMBDA v : is_valid_hostname(v) /\ new.hostname = v)
           /\ new.protocol # old.protocol =>
                Has("protocol", LAMBDA v :
                        /\ IsStr(v)
                        /\ StrLower(v.s) \in {"udp", "tcp"}
                        /\ new.protocol = PyStr(StrLower(v.s)))
           /\ new.server_dir # old.server_dir =>
                Has("server_dir", LAMBDA v :
                        /\ IsStr(v)
                        /\ isdir(dirs', v.s)
                        /\ new.server_dir = PyStr(sanitize_path(v.s)))
           /\ last'.out = "exited" =>
                /\ proc' = [status |-> "exited", code |-> 1]
                /\ \E i \in 1..Len(its) :
                        /\ its[i].key \in {"server_dir", "easy_rsa_dir", "clients_dir"}
                        /\ IsStr(its[i].value)
                        /\ ~isdir(dirs', its[i].value.s)
           /\ ( /\ its # <<>>
                /\ its[1].key = "server_dir"
                /\ IsStr(its[1].value)
                /\ ~isdir(dirs, its[1].value.s) ) =>
                    /\ proc' = [status |-> "exited", code |-> 1]
                    /\ settings' = settings
                    /\ inst' = inst]_vars

\* A load returned although the file's hostname fails validation and its
\* protocol is upper case: the hostname was not stored, the protocol was
\* stored in lower case.
C3_Witness ==
    /\ last.op = "load_config"
    /\ last.out = "returned"
    /\ files[DefaultConfigFile].exists
    /\ AllItems(files[DefaultConfigFile].data) =
            <<Item("hostname", PyStr("bad_host!")), Item("protocol", PyStr("TCP"))>>
    /\ settings.server.hostname = PyNone
    /\ settings.server.protocol = PyStr("tcp")
-----------------------------------------------------------------------------
(* Loads of files that hold the store's own settings. *)

SettingItems ==
    {Item("server_dir", PyStr("/srv/vpn/")),
     Item("sovpn_share_salt", PyStr("Xk3v9QmT2a")),
     Item("hostname", PyStr("vpn-1.example.org")),
     Item("ipv4", PyStr("198.51.100.7")),
     Item("port", PyInt(1194)),
     Item("slug", PyStr("alice")),
     Item("client_dir", PyStr("/srv/alice/")),
     Item("bogus", PyInt(1))}

NextLoadKeys ==
    \/ Construct
    \/ LoadConfig
    \/ EnvCreateFile(DefaultConfigFile)
    \/ EnvAddPool(DefaultConfigFile, {"server", "client"})
    \/ EnvAddItem(DefaultConfigFile, SettingItems)
    \/ EnvRemoveFile(DefaultConfigFile)

SpecLoadKeys == InitStore /\ [][NextLoadKeys]_vars

\* C4: a load of a well-formed file never raises, whatever subset of the
\* recognized settings and whatever other keys the file holds, and every
\* field the file does not name keeps its value.
C4_LoadNeverRaises ==
    [][last'.op = "load_config" =>
        /\ last'.out = "returned"
        /\ \A k \in (ServerFields \cup ClientFields) \ LoadedKeys :
              settings'[PoolOfField(k)][k] = settings[PoolOfField(k)][k]]_vars

-----------------------------------------------------------------------------
(* Reads of hostname. *)

HostnameValues ==
    {PyStr("vpn-1.example.org"), PyStr("bad_host!"), PyStr("-edge.example.org")}

HostnameItems ==
    {Item("hostname", PyStr("vpn-1.example.org")),
     Item("hostname", PyStr("bad_host!")),
     Item("port", PyInt(1194))}

NextHostname ==
    \/ ReadHostname
    \/ WriteHostname(HostnameValues)
    \/ LoadConfig
    \/ EnvCreateFile(DefaultConfigFile)
    \/ EnvAddPool(DefaultConfigFile, {"server", "client"})
    \/ EnvAddItem(DefaultConfigFile, HostnameItems)
    \/ EnvRemoveFile(DefaultConfigFile)

SpecHostname == InitStore /\ [][NextHostname]_vars

\* C8: a read of hostname never raises and changes nothing; it returns the
\* stored hostname when there is one, else the persisted file's hostname when
\* the file has one that passes validation, else null.
C8_HostnameReadNeverRaises ==
    [][last'.op = "hostname" =>
        LET stored == settings.server.hostname
            f == files[DefaultConfigFile]
            hasOne == /\ f.exists
                      /\ HasPool(f.data, "server")
                      /\ HasKey(PoolItems(f.data, "server"), "hostname")
        IN /\ last'.out = "returned"
           /\ settings' = settings
           /\ inst' = inst
           /\ last'.ret =
                IF stored # PyNone THEN stored
                ELSE IF hasOne /\ is_valid_hostname(
                                    ValueOf(PoolItems(f.data, "server"), "hostname"))
                THEN ValueOf(PoolItems(f.data, "server"), "hostname")
                ELSE PyNone]_vars

-----------------------------------------------------------------------------
(* Reads of ipv4. *)

\* What the external lookup may answer.
Lookups == {PyStr("203.0.113.9"), PyStr("<html>busy</html>"), PyNone}

Ipv4Items ==
    {Item("ipv4", PyStr("198.51.100.7")),
     Item("settings", PyDict(1)),
     Item("protocol", PyStr("udp"))}

NextIpv4 ==
    \/ Construct
    \/ LoadConfig
    \/ ReadIpv4(Lookups)
    \/ WriteProtocol(ProtocolValues)
    \/ WriteHostname(HostnameValues)
    \/ EnvCreateFile(DefaultConfigFile)
    \/ EnvAddPool(DefaultConfigFile, {"server"})
    \/ EnvAddItem(DefaultConfigFile, Ipv4Items)
    \/ EnvRemoveFile(DefaultConfigFile)

SpecIpv4 == InitStore /\ [][NextIpv4]_vars

\* C9: the ipv4 a store holds is always null, and a read of ipv4 returns the
\* looked-up address when it passes validation and null otherwise.
C9_Ipv4NeverStored ==
    /\ Subscriptable(Cur) => Pools(Cur).server.ipv4 = PyNone
    /\ (last.op = "ipv4" /\ last.out = "returned") =>
            last.ret = IF is_valid_ipv4(last.arg) THEN last.arg ELSE PyNone

-----------------------------------------------------------------------------
(* Constructions after setter calls, with no persisted file. *)

PortValues == {PyInt(1194), PyStr(" 443 ")}
SlugValues == {PyStr("Alice"), PyStr("Bob  Smith!")}

NextConstruct ==
    \/ Construct
    \/ WriteProtocol(ProtocolValues)
    \/ WriteHostname(HostnameValues)
    \/ WritePort(PortValues)
    \/ WriteSlug(SlugValues)
    \/ WritePrettyName({PyStr(" Alice A. ")})
    \/ WriteSovpnShareSalt({PyStr("Xk3v9QmT2a")})

SpecConstruct == InitStore /\ [][NextConstruct]_vars

\* C5: a construction while the persisted file is absent raises nothing and
\* leaves every field at its default.
C5_ConstructionGivesDefaults ==
    (last.op = "__init__" /\ ~isfile(files, DefaultConfigFile)) =>
        /\ last.out = "returned"
        /\ Pools(Cur) = ClassSettings

-----------------------------------------------------------------------------
(* Writes of slug, clients_dir and client_dir. *)

ClientsDirValues == {PyStr("/srv/vpn"), PyStr("/srv//"), PyStr("/nonexistent")}
CreateValues == {PyBool(TRUE), PyBool(FALSE), PyStr("/tmp/elsewhere")}

NextClient ==
    \/ WriteSlug(SlugValues)
    \/ WriteClientsDir(ClientsDirValues)
    \/ WriteClientDir(CreateValues)
    \/ ReadClientDir

SpecClient == InitStore /\ [][NextClient]_vars

\* C2: whenever client_dir is set it is the sanitized clients_dir + slug of
\* the moment, and a write of client_dir stores that path, not the value the
\* caller assigned.
C2_ClientDirConsistent ==
    LET c == settings.client.client_dir
        derived == PyStr(sanitize_path(settings.server.clients_dir.s
                                        \o settings.client.slug.s))
    IN /\ c # PyNone => c = derived
       /\ (last.op = "client_dir.setter" /\ last.out = "returned") => c = derived
-----------------------------------------------------------------------------
(* Soft validation failures. *)

SoftItems ==
    {Item("settings", PyDict(1)),
     Item("settings", PyInt(0))}

NextSoft ==
    \/ WriteHostname(HostnameValues)
    \/ WriteProtocol(ProtocolValues)
    \/ WritePort(PortValues)
    \/ Construct
    \/ LoadConfig
    \/ EnvCreateFile(DefaultConfigFile)
    \/ EnvAddPool(DefaultConfigFile, {"server"})
    \/ EnvAddItem(DefaultConfigFile, SoftItems)
    \/ EnvRemoveFile(DefaultConfigFile)

SpecSoft == InitStore /\ [][NextSoft]_vars

\* The last call wrote a hostname that fails validation, or a protocol that
\* is neither udp nor tcp in any case.
SoftFailure(call) ==
    \/ /\ call.op = "hostname.setter"
       /\ IsStr(call.arg)
       /\ ~is_valid_hostname(call.arg)
    \/ /\ call.op = "protocol.setter"
       /\ ~(IsStr(call.arg) /\ StrLower(call.arg.s) \in {"udp", "tcp"})

\* C6: a write of a hostname string that fails syntax validation, or of a
\* protocol value that is not udp or tcp in any case, returns without
\* raising, leaves the process running, and changes no field of either pool.
C6_SoftFailureKeepsState ==
    [][SoftFailure(last') =>
        /\ last'.out = "returned"
        /\ proc' = [status |-> "running", code |-> 0]
        /\ settings' = settings
        /\ inst' = inst
        /\ dirs' = dirs]_vars

\* A hostname that fails validation was written over a stored hostname, and a
\* protocol is stored: both are still there.
C6_Witness ==
    /\ last.op = "hostname.setter"
    /\ last.arg = PyStr("bad_host!")
    /\ last.out = "returned"
    /\ settings.server.hostname = PyStr("vpn-1.example.org")
    /\ settings.server.protocol = PyStr("tcp")

-----------------------------------------------------------------------------
(* Writes and reads of the directory fields. *)

DirValues ==
    {PyStr("/srv//vpn"), PyStr("/srv/vpn/"), PyStr("/etc/openvpn"),
     PyStr("/nonexistent"), PyStr("srv")}

NextDirs ==
    \/ WriteServerDir(DirValues)
    \/ WriteEasyRsaDir(DirValues)
    \/ WriteClientsDir(DirValues)
    \/ ReadServerDir
    \/ ReadEasyRsaDir
    \/ ReadClientsDir

SpecDirs == InitStore /\ [][NextDirs]_vars

DirFields == {"server_dir", "easy_rsa_dir", "clients_dir"}

\* C7: a write of a directory field with a path that is no existing directory
\* ends the process with status 1, creates nothing and changes no field; a
\* write of an existing directory stores its sanitized form and nothing else;
\* a read returns exactly what is stored.
C7_DirectoryWrites ==
    [][\A f \in DirFields :
        /\ (last'.op = f \o ".setter" /\ IsStr(last'.arg) /\ ~isdir(dirs, last'.arg.s)) =>
                /\ last'.out = "exited"
                /\ proc' = [status |-> "exited", code |-> 1]
                /\ dirs' = dirs
                /\ settings' = settings
                /\ inst' = inst
        /\ (last'.op = f \o ".setter" /\ IsStr(last'.arg) /\ isdir(dirs, last'.arg.s)) =>
                /\ last'.out = "returned"
                /\ proc' = proc
                /\ settings' =
                        [settings EXCEPT !.server[f] = PyStr(sanitize_path(last'.arg.s))]
                /\ GetItem(Cur, "server", f)'.ret = PyStr(sanitize_path(last'.arg.s))
        /\ last'.op = f =>
                /\ last'.out = "returned"
                /\ last'.ret = settings.server[f]
                /\ settings' = settings]_vars

\* An existing directory written unsanitized was stored sanitized and read
\* back, and a later write of a missing directory ended the process.
C7_Witness ==
    /\ proc = [status |-> "exited", code |-> 1]
    /\ last.op = "easy_rsa_dir.setter"
    /\ last.arg = PyStr("/nonexistent")
    /\ settings.server.server_dir = PyStr("/srv/vpn/")
    /\ settings.server.clients_dir = PyStr("/etc/openvpn/")
    /\ "/nonexistent/" \notin dirs

-----------------------------------------------------------------------------
(* The suggestion engine: SimplifiedOpenvpnSuggest. *)

\* random.randint(10, 16): the shortest and the longest generated salt.
SaltMin == 10
SaltMax == 16

\* The seeds of the generator the model draws salts from.
MaxSeed == 1

\* Items of the bundled sample.
MaxSampleItems == 2

\* string.ascii_letters + string.digits
SaltChars == LowerChars \o UpperChars \o DigitChars

\* What a suggestion ends with: its outcome, its value, what it consulted.
Suggested(ret, srcs) ==
    [out |-> "returned", exc |-> "", ret |-> ret, consulted |-> srcs]
SuggestRaised(exc, srcs) ==
    [out |-> "raised", exc |-> exc, ret |-> PyNone, consulted |-> srcs]

\* defaults['server'][key] if the sample's server pool holds key, else None.
get_value_from_sample(smp, key) ==
    IF ~HasPool(smp, "server") THEN SuggestRaised("KeyError", {"sample"})
    ELSE IF HasKey(PoolItems(smp, "server"), key)
    THEN Suggested(ValueOf(PoolItems(smp, "server"), key), {"sample"})
    ELSE Suggested(PyNone, {"sample"})

Suggest_server_dir(smp) == get_value_from_sample(smp, "server_dir")

Suggest_easy_rsa_dir(smp) == get_value_from_sample(smp, "easy_rsa_dir")

\* os.path.expanduser('~') is the machine's home directory.
Suggest_clients_dir(smp, home) ==
    LET suggestion == get_value_from_sample(smp, "clients_dir")
    IN IF suggestion.out = "returned" /\ suggestion.ret = PyNone
       THEN Suggested(PyStr(sanitize_path(home) \o "openvpn-clients"),
                      suggestion.consulted \cup {"home"})
       ELSE suggestion

\* random.choice(chars), the i-th draw of the generator seeded with seed.
RandomChoice(chars, seed, i) ==
    Char(chars, ((seed * 17 + i * (2 * seed + 5)) % Len(chars)) + 1)

RECURSIVE RandomString(_, _, _)
\* ''.join(random.choice(chars) for _ in range(length))
RandomString(chars, seed, length) ==
    IF length = 0 THEN ""
    ELSE RandomString(chars, seed, length - 1) \o RandomChoice(chars, seed, length)

Suggest_sovpn_share_salt(smp, length, seed) ==
    LET suggestion == get_value_from_sample(smp, "sovpn_share_salt")
    IN IF suggestion.out = "returned" /\ suggestion.ret = PyNone
       THEN Suggested(PyStr(RandomString(SaltChars, seed, length)),
                      suggestion.consulted \cup {"random"})
       ELSE suggestion

\* A hostname suggestion that asks reverse DNS whatever the system reported.
Suggest_hostname_AlwaysResolves(smp, system, reverse_dns) ==
    LET suggestion == get_value_from_sample(smp, "hostname")
    IN IF suggestion.out = "returned" /\ suggestion.ret = PyNone
       THEN Suggested(IF system = PyNone THEN reverse_dns ELSE system,
                      suggestion.consulted \cup {"system", "reverse_dns"})
       ELSE suggestion

\* system and reverse_dns are what fetch_hostname_by_system() and
\* fetch_hostname_by_reverse_dns() return on this machine.
Suggest_hostname(smp, system, reverse_dns) ==
    LET suggestion == get_value_from_sample(smp, "hostname")
        probed == IF suggestion.out = "returned" /\ suggestion.ret = PyNone
                  THEN Suggested(system, suggestion.consulted \cup {"system"})
                  ELSE suggestion
    IN IF probed.out = "returned" /\ probed.ret = PyNone
       THEN Suggested(reverse_dns, probed.consulted \cup {"reverse_dns"})
       ELSE probed

Suggest_protocol(smp) == get_value_from_sample(smp, "protocol")

Suggest_port(smp) == get_value_from_sample(smp, "port")

\* A call of the suggestion function of field that ended as r.
Suggest(field, r) ==
    /\ Running
    /\ last' = [op |-> "suggest." \o field, arg |-> PyNone, out |-> r.out,
                exc |-> r.exc, code |-> 0, ret |-> r.ret]
    /\ consulted' = r.consulted
    /\ UNCHANGED <<settings, inst, dirs, files, proc, sample, machine>>

SuggestServerDir == Suggest("server_dir", Suggest_server_dir(sample))

SuggestEasyRsaDir == Suggest("easy_rsa_dir", Suggest_easy_rsa_dir(sample))

SuggestClientsDir ==
    Suggest("clients_dir", Suggest_clients_dir(sample, machine.home))

SuggestSovpnShareSalt ==
    \E length \in SaltMin..SaltMax, seed \in 0..MaxSeed :
        Suggest("sovpn_share_salt", Suggest_sovpn_share_salt(sample, length, seed))

SuggestHostname ==
    Suggest("hostname",
            Suggest_hostname(sample, machine.hostname, machine.reverse_dns))

SuggestProtocol == Suggest("protocol", Suggest_protocol(sample))

SuggestPort == Suggest("port", Suggest_port(sample))

-----------------------------------------------------------------------------
(* Suggestions, over bundled samples and machines. *)

SampleItems ==
    {Item("server_dir", PyStr("/etc/openvpn/")),
     Item("easy_rsa_dir", PyNone),
     Item("clients_dir", PyStr("/root/openvpn-clients/")),
     Item("clients_dir", PyNone),
     Item("sovpn_share_salt", PyStr("s4lt")),
     Item("sovpn_share_salt", PyNone),
     Item("hostname", PyStr("vpn.example.com")),
     Item("hostname", PyNone),
     Item("protocol", PyStr("udp")),
     Item("port", PyInt(1194)),
     Item("port", PyInt(0))}

\* The items the sample's client pool may hold.
ClientSampleItems ==
    {<<>>,
     <<Item("hostname", PyStr("client.example.com")),
       Item("sovpn_share_salt", PyStr("cl13nt")),
       Item("port", PyInt(443))>>}

\* The sequences of up to n items of E with distinct keys.
RECURSIVE ItemSeqs(_, _)
ItemSeqs(E, n) ==
    IF n = 0 THEN {<<>>}
    ELSE LET shorter == ItemSeqs(E, n - 1)
         IN shorter \cup
            {Append(q, it) : <<q, it>> \in
                {x \in shorter \X E : ~HasKey(x[1], x[2].key)}}

\* The samples: a server pool, and a client pool, as the persisted file has.
Samples ==
    {<<[pool |-> "server", items |-> q], [pool |-> "client", items |-> c]>> :
        q \in ItemSeqs(SampleItems, MaxSampleItems), c \in ClientSampleItems}

Machines ==
    [hostname : {PyNone, PyStr("vpn-1")},
     reverse_dns : {PyNone, PyStr("vpn-1.example.org")},
     home : {"/root", "/home//ops/"}]

InitSuggest ==
    /\ settings = ClassSettings
    /\ inst = FreshInstance
    /\ dirs = InitialDirs
    /\ files = [p \in ConfigPaths |-> NoFile]
    /\ proc = [status |-> "running", code |-> 0]
    /\ last = NoCall
    /\ sample \in Samples
    /\ machine \in Machines
    /\ consulted = {}

NextSuggest ==
    \/ SuggestServerDir
    \/ SuggestEasyRsaDir
    \/ SuggestClientsDir
    \/ SuggestSovpnShareSalt
    \/ SuggestHostname
    \/ SuggestProtocol
    \/ SuggestPort

SpecSuggest == InitSuggest /\ [][NextSuggest]_vars

SuggestionFields ==
    {"server_dir", "easy_rsa_dir", "clients_dir", "sovpn_share_salt", "hostname",
     "protocol", "port"}

\* The value the sample's server pool holds for key, None when it holds none.
SampleValue(key) ==
    IF HasKey(PoolItems(sample, "server"), key)
    THEN ValueOf(PoolItems(sample, "server"), key) ELSE PyNone

\* C10: every suggestion returns the sample's non-null server-pool value
\* for its own field and consults nothing else; otherwise clients_dir is the
\* sanitized home directory plus "openvpn-clients", sovpn_share_salt is 10
\* to 16 letters and digits, hostname is the system hostname, or what
\* reverse DNS answers when the system hostname is null and only then, and
\* server_dir, easy_rsa_dir, protocol and port are null.
C10_LayeredSuggestion ==
    \A f \in SuggestionFields :
        last.op = "suggest." \o f =>
            /\ last.out = "returned"
            /\ IF SampleValue(f) # PyNone
               THEN last.ret = SampleValue(f) /\ consulted = {"sample"}
               ELSE CASE f = "clients_dir" ->
                           last.ret = PyStr(sanitize_path(machine.home)
                                            \o "openvpn-clients")
                      [] f = "sovpn_share_salt" ->
                           /\ IsStr(last.ret)
                           /\ Len(last.ret.s) \in 10..16
                           /\ AllChars(last.ret.s,
                                       UpperChars \o LowerChars \o DigitChars)
                      [] f = "hostname" ->
                           IF machine.hostname # PyNone
                           THEN /\ last.ret = machine.hostname
                                /\ "reverse_dns" \notin consulted
                           ELSE last.ret = machine.reverse_dns
                      [] OTHER ->
                           last.ret = PyNone /\ consulted = {"sample"}

\* The sample holds a null hostname in its server pool and a hostname in
\* its client pool, the system reports no hostname, and the suggestion is
\* what reverse DNS answered.
C10_Witness ==
    /\ last.op = "suggest.hostname"
    /\ HasKey(PoolItems(sample, "server"), "hostname")
    /\ SampleValue("hostname") = PyNone
    /\ HasKey(PoolItems(sample, "client"), "hostname")
    /\ machine.hostname = PyNone
    /\ last.ret = PyStr("vpn-1.example.org")
    /\ consulted = {"sample", "system", "reverse_dns"}

=============================================================================
